---- MODULE Spec2Model ----
(***************************************************************************)
(* A model of fessonia's command builder: FFmpegCommand                    *)
(* (lib/ffmpeg_command.js) and FilterChain (lib/filter_chain.js).          *)
(*                                                                         *)
(* JavaScript objects are records [class, id]; `class` is what instanceof  *)
(* tests, `id` is the object's identity.  A call that throws is a step     *)
(* that sets err to the kind of error thrown and keeps every assignment    *)
(* the method made before the throw.                                       *)
(***************************************************************************)
EXTENDS Integers, Sequences, FiniteSets, TLC

\* ------------------------------------------------------------------ bounds
MaxInputs == 2
MaxOutputs == 2
MaxGraphs == 1
MaxMappings == 1
MaxNodes == 2
MaxChainInputs == 3

\* ----------------------------------------------------------------- objects
Obj(c, i) == [class |-> c, id |-> i]

InputObjs == {Obj("FFmpegInput", "videoInput"), Obj("FFmpegInput", "audioInput")}
OutputObjs == {Obj("FFmpegOutput", "output"), Obj("FFmpegOutput", "output2")}
\* a FilterGraph with no chain, and the tutorial's one-chain graph
GraphObjs == {Obj("FilterGraph", "emptyGraph"), Obj("FilterGraph", "videoFilters")}
PlainObj == Obj("Object", "plain")
\* the mapping tuple [fromObject, index] itself, as processMappings passes it on
ArrayObj == Obj("Array", "mapping")
Undefined == Obj("undefined", "undefined")
Null == Obj("null", "null")

PadIndexes == {0, 1}
\* what a caller can hand to getMappingParameterValue as fromObject
SourceObjs == InputObjs \cup {Obj("FilterGraph", "videoFilters"), PlainObj}
\* the [fromObject, index] tuples a caller can put in addOutput's mappings
MappingEntries == {<<Obj("FFmpegInput", "videoInput"), 0>>,
                   <<Obj("FilterGraph", "videoFilters"), 0>>}

\* global options handed to the constructor, as an insertion-ordered Map
Opt(k, has, v) == [opt |-> k, hasValue |-> has, value |-> v]
OptionMaps == {<< >>, <<Opt("loglevel", TRUE, "quiet"), Opt("y", FALSE, "")>>}

\* the identifiers ffmpeg_command.js binds at module scope are EventEmitter,
\* config, logger, cp, FFmpegInput and FFmpegOutput: FilterNode and
\* FilterGraph are not among them, so evaluating `FilterNode` throws
FilterNodeBound == FALSE

\* filter nodes: name, input pads and output pads as FilterNode exposes them
\* ('N' is the pad of a filter that takes any number of streams)
Node(n, i, o) == [name |-> n, inputs |-> i, outputs |-> o]
NodeTypes == {Node("edgedetect", <<"V">>, <<"V">>),
              Node("overlay", <<"V", "V">>, <<"V">>),
              Node("amix", <<"N">>, <<"A">>),
              Node("nullsink", <<"V">>, << >>)}

\* stream specifiers by the text their toString gives, and a value that is no
\* FFmpegStreamSpecifier
Specifiers == {[class |-> "FFmpegStreamSpecifier", str |-> <<"0:v">>],
               [class |-> "FFmpegStreamSpecifier", str |-> <<"[", "chain0_split_0", "]">>]}
NotSpecifier == [class |-> "String", str |-> <<"0:v">>]

\* filter_chain.js binds FilterNode alone at module scope: `logger` is not
\* defined there, so evaluating `logger.warn` throws
LoggerBound == FALSE

VARIABLES
  options,        \* this.options
  inputs,         \* this._inputs
  inputLabel,     \* input.inputLabel of every FFmpegInput object (<< >>: not set)
  outputs,        \* this._outputs
  outputFilter,   \* the 'filter' option addFilterGraph put on an output (<< >>: none)
  filterGraphs,   \* this._filterGraphs
  connections,    \* this._connections
  padMapped,      \* output pads marked by markOutputPadMapped
  lastOp,         \* the method of FFmpegCommand called last
  lastArg,        \* what getMappingParameterValue was called with (else << >>)
  err,            \* the error it threw ("none": it returned)
  args,           \* toCommand's result.args (<< >> after any other call)
  mapValue,       \* getMappingParameterValue's return value
  supplied,       \* number of mapping entries handed to addOutput so far
  nodes,          \* FilterChain: this.nodes
  chainInputs,    \* FilterChain: this.inputs
  requested,      \* output pads a stream specifier was requested for
  chainOp,        \* the method of FilterChain called last
  chainArg,       \* the array addInputs/validateInputs was called with (else << >>)
  chainErr,       \* the error it threw ("none": it returned)
  chainText       \* toString's result (<< >> after any other call)

cmdState == <<options, inputs, inputLabel, outputs, outputFilter, filterGraphs,
              connections, padMapped>>
cmdVars == <<options, inputs, inputLabel, outputs, outputFilter, filterGraphs,
             connections, padMapped, lastOp, lastArg, err, args, mapValue, supplied>>

chainVars == <<nodes, chainInputs, requested, chainOp, chainArg, chainErr, chainText>>

vars == <<cmdVars, chainVars>>

\* ------------------------------------------------------------- helpers
RECURSIVE Flatten(_)
Flatten(ss) == IF ss = << >> THEN << >> ELSE Head(ss) \o Flatten(Tail(ss))

\* Array.prototype.indexOf: the first position (0-based) holding x, or -1
IndexOf(s, x) ==
  IF \E k \in 1..Len(s) : s[k] = x
  THEN (CHOOSE k \in 1..Len(s) : s[k] = x /\ \A j \in 1..(k - 1) : s[j] # x) - 1
  ELSE -1

\* ------------------------------------------------------------- rendering
\* FilterGraph.toString: the chains' texts joined with ';'
GraphToString(g) ==
  IF g.id = "videoFilters" THEN "edgedetect=mode=colormix:high=0" ELSE ""

\* FFmpegInput.toCommandArray: the input's argument block
InputToCommandArray(i) == <<"-i", "/path/to/" \o i.id>>

\* FFmpegOutput.toCommandArray: the output's options, then its url
OutputToCommandArray(o) ==
  (IF outputFilter[o] = << >> THEN << >>
   ELSE <<"-filter", GraphToString(outputFilter[o][1])>>)
  \o <<"/path/to/" \o o.id>>

GlobalArgs ==
  Flatten([k \in 1..Len(options) |->
             <<"-" \o options[k].opt>>
             \o (IF options[k].hasValue THEN <<options[k].value>> ELSE << >>)])

InputArgs == Flatten([k \in 1..Len(inputs) |-> InputToCommandArray(inputs[k])])

\* the loop over this._connections.keys() only logs
MapArgs == Flatten([k \in 1..Len(connections) |-> << >>])

OutputArgs == Flatten([k \in 1..Len(outputs) |-> OutputToCommandArray(outputs[k])])

ToCommandArgs == GlobalArgs \o InputArgs \o MapArgs \o OutputArgs

\* ------------------------------------------------------------- operations
CmdInit(optionMaps) ==
  /\ options \in optionMaps
  /\ inputs = << >>
  /\ inputLabel = [i \in InputObjs |-> << >>]
  /\ outputs = << >>
  /\ outputFilter = [o \in OutputObjs |-> << >>]
  /\ filterGraphs = << >>
  /\ connections = << >>
  /\ padMapped = {}
  /\ lastOp = "constructor"
  /\ lastArg = << >>
  /\ err = "none"
  /\ args = << >>
  /\ mapValue = << >>
  /\ supplied = 0

\* new FilterChain(nodes), nodes a non-empty array of FilterNode objects
ChainInit(nodeLists) ==
  /\ nodes \in nodeLists
  /\ chainInputs = << >>
  /\ requested = {}
  /\ chainOp = "constructor"
  /\ chainArg = << >>
  /\ chainErr = "none"
  /\ chainText = << >>

Init == CmdInit(OptionMaps) /\ ChainInit({<<Node("edgedetect", <<"V">>, <<"V">>)>>})

AddInput(input) ==
  /\ Len(inputs) < MaxInputs
  /\ inputLabel' = [inputLabel EXCEPT ![input] = <<Len(inputs)>>]
  /\ inputs' = Append(inputs, input)
  /\ lastOp' = "addInput"
  /\ lastArg' = << >>
  /\ err' = "none"
  /\ args' = << >>
  /\ mapValue' = << >>
  /\ UNCHANGED <<options, outputs, outputFilter, filterGraphs, connections,
                 padMapped, supplied, chainVars>>

\* FilterNode/FilterGraph.outputPadNames[index]: the generated pad name
OutputPadName(fromObject, index) == "[" \o fromObject.id \o "_" \o ToString(index) \o "]"

\* FilterNode/FilterGraph.markOutputPadMapped: a pad is mapped at most once
MarkOutputPadMapped(fromObject, index) ==
  IF <<fromObject, index>> \in padMapped
  THEN [err |-> "AlreadyMapped", marked |-> padMapped]
  ELSE [err |-> "none", marked |-> padMapped \cup {<<fromObject, index>>}]

\* getMappingParameterValue(fromObject, fromStreamIndex): the error thrown, the
\* value returned and the pads marked afterwards
GetMappingParameterValue(fromObject, fromStreamIndex) ==
  IF fromObject.class = "FFmpegInput"
  THEN LET fromObjInputIndex == IndexOf(inputs, fromObject) IN
       IF fromObjInputIndex = -1
       THEN [err |-> "UnknownInputFile", value |-> << >>, marked |-> padMapped]
       ELSE [err |-> "none", value |-> <<fromObjInputIndex, fromStreamIndex>>,
             marked |-> padMapped]
  ELSE IF ~FilterNodeBound
  THEN \* `fromObject instanceof FilterNode`: FilterNode is not defined
       [err |-> "ReferenceError", value |-> << >>, marked |-> padMapped]
  ELSE IF fromObject.class \in {"FilterNode", "FilterGraph"}
  THEN LET m == MarkOutputPadMapped(fromObject, fromStreamIndex) IN
       [err |-> m.err,
        value |-> IF m.err = "none"
                  THEN <<OutputPadName(fromObject, fromStreamIndex)>> ELSE << >>,
        marked |-> m.marked]
  ELSE [err |-> "UnknownInputType", value |-> << >>, marked |-> padMapped]

\* processMappings(mappings, output): the error thrown.  The callback runs on the
\* first entry: `output.mapTrack` is read first (a TypeError when output is
\* undefined), then getMappingParameterValue is handed the whole tuple as
\* fromObject and no stream index (-1 here), which it never resolves.
ProcessMappings(mappings, output) ==
  IF mappings = << >> THEN "none"
  ELSE IF output = Undefined THEN "TypeError"
  ELSE GetMappingParameterValue(ArrayObj, -1).err

\* addOutput(output, mappings): hasMappings is `mappings !== null`
AddOutput(output, hasMappings, mappings) ==
  /\ Len(outputs) < MaxOutputs
  /\ outputs' = Append(outputs, output)
  /\ err' = IF hasMappings THEN ProcessMappings(mappings, Undefined) ELSE "none"
  /\ lastOp' = "addOutput"
  /\ lastArg' = << >>
  /\ supplied' = supplied + (IF hasMappings THEN Len(mappings) ELSE 0)
  /\ args' = << >>
  /\ mapValue' = << >>
  /\ UNCHANGED <<options, inputs, inputLabel, outputFilter, filterGraphs,
                 connections, padMapped, chainVars>>

AddFilterGraph(filterGraph, onOutput) ==
  /\ Len(filterGraphs) < MaxGraphs
  /\ filterGraphs' = Append(filterGraphs, filterGraph)
  /\ outputFilter' = IF onOutput # Null /\ onOutput.class = "FFmpegOutput"
                     THEN [outputFilter EXCEPT ![onOutput] = <<filterGraph>>]
                     ELSE outputFilter
  /\ lastOp' = "addFilterGraph"
  /\ lastArg' = << >>
  /\ err' = "none"
  /\ args' = << >>
  /\ mapValue' = << >>
  /\ UNCHANGED <<options, inputs, inputLabel, outputs, connections, padMapped,
                 supplied, chainVars>>

\* a caller's own processMappings(mappings, output) with an FFmpegOutput
ProcessMappingsCall(mappings, output) ==
  /\ err' = ProcessMappings(mappings, output)
  /\ lastOp' = "processMappings"
  /\ lastArg' = << >>
  /\ args' = << >>
  /\ mapValue' = << >>
  /\ UNCHANGED <<cmdState, supplied, chainVars>>

\* a caller's own getMappingParameterValue(fromObject, fromStreamIndex)
GetMappingParameterValueCall(fromObject, fromStreamIndex) ==
  LET r == GetMappingParameterValue(fromObject, fromStreamIndex) IN
  /\ err' = r.err
  /\ mapValue' = r.value
  /\ padMapped' = r.marked
  /\ lastOp' = "getMappingParameterValue"
  /\ lastArg' = [fromObject |-> fromObject, fromStreamIndex |-> fromStreamIndex]
  /\ args' = << >>
  /\ UNCHANGED <<options, inputs, inputLabel, outputs, outputFilter, filterGraphs,
                 connections, supplied, chainVars>>

\* connect(from, to): throws unless `from` has an own property 'from'
Connect(hasFrom) ==
  /\ err' = IF hasFrom THEN "none" ELSE "InvalidArgument"
  /\ lastOp' = "connect"
  /\ lastArg' = << >>
  /\ args' = << >>
  /\ mapValue' = << >>
  /\ UNCHANGED <<cmdState, supplied, chainVars>>

\* toCommand with a bug: rendering consumes the output list
ToCommandDraining ==
  /\ args' = ToCommandArgs
  /\ outputs' = IF outputs = << >> THEN outputs ELSE Tail(outputs)
  /\ lastOp' = "toCommand"
  /\ lastArg' = << >>
  /\ err' = "none"
  /\ mapValue' = << >>
  /\ UNCHANGED <<options, inputs, inputLabel, outputFilter, filterGraphs,
                 connections, padMapped, supplied, chainVars>>

ToCommand ==
  /\ args' = ToCommandArgs
  /\ lastOp' = "toCommand"
  /\ lastArg' = << >>
  /\ err' = "none"
  /\ mapValue' = << >>
  /\ UNCHANGED <<cmdState, supplied, chainVars>>

\* what a caller can hand to addFilterGraph as onOutput
OnOutputs == {Null, PlainObj, Obj("FFmpegOutput", "output")}

\* the mappings argument of addOutput/processMappings: up to MaxMappings tuples
MappingLists ==
  UNION {[1..n -> MappingEntries] : n \in 0..MaxMappings}

Next ==
  \/ \E i \in InputObjs : AddInput(i)
  \/ \E o \in OutputObjs : AddOutput(o, FALSE, << >>)
  \/ \E o \in OutputObjs, m \in MappingLists : AddOutput(o, TRUE, m)
  \/ \E g \in GraphObjs, o \in OnOutputs : AddFilterGraph(g, o)
  \/ \E m \in MappingLists : ProcessMappingsCall(m, Obj("FFmpegOutput", "output"))
  \/ \E f \in SourceObjs, x \in PadIndexes : GetMappingParameterValueCall(f, x)
  \/ \E b \in BOOLEAN : Connect(b)
  \/ ToCommand

Spec == Init /\ [][Next]_vars

\* ------------------------------------------------------------ FilterChain
InputNode == nodes[1]
OutputNode == nodes[Len(nodes)]
InputPads == InputNode.inputs
OutputPads == OutputNode.outputs

\* FilterNode.toString and FilterNode.padPrefix
NodeToString(f) == <<f.name>>
PadPrefix(f) == f.name

\* an argument of addInputs: an Array of elements, or a value that is no Array
ArrayOf(elems) == [isArray |-> TRUE, elems |-> elems]
NotArray(elem) == [isArray |-> FALSE, elems |-> <<elem>>]

\* validateInputs(inputs): the error thrown ("none": inputs is returned)
ValidateInputs(inputsArg) ==
  IF ~inputsArg.isArray THEN "InvalidArgument"
  ELSE IF \E k \in 1..Len(inputsArg.elems) :
            inputsArg.elems[k].class # "FFmpegStreamSpecifier"
  THEN "InvalidInputs"
  ELSE LET inputsNeeded == Len(InputPads)
           orMore == \E p \in 1..Len(InputPads) : InputPads[p] = "N"
           inputsProvided == Len(chainInputs) + Len(inputsArg.elems)
       IN IF ~orMore /\ inputsNeeded < inputsProvided THEN "TooManyInputs"
          ELSE IF inputsNeeded > inputsProvided /\ ~LoggerBound
          THEN \* `logger.warn(...)`: logger is not defined
               "ReferenceError"
          ELSE "none"

\* addInputs(inputs), entered as method `op` (addInput calls addInputs([input]))
AddInputsAs(op, inputsArg) ==
  LET e == ValidateInputs(inputsArg) IN
  /\ e = "none" => Len(chainInputs) + Len(inputsArg.elems) <= MaxChainInputs
  /\ chainInputs' = IF e = "none" THEN chainInputs \o inputsArg.elems ELSE chainInputs
  /\ chainErr' = e
  /\ chainOp' = op
  /\ chainArg' = inputsArg
  /\ chainText' = << >>
  /\ UNCHANGED <<nodes, requested, cmdVars>>

AddInputs(inputsArg) == AddInputsAs("addInputs", inputsArg)

ChainAddInput(input) == AddInputsAs("addInput", ArrayOf(<<input>>))

AppendNodes(ns) ==
  /\ Len(nodes) + Len(ns) <= MaxNodes
  /\ nodes' = nodes \o ns
  /\ chainOp' = "appendNodes"
  /\ chainArg' = << >>
  /\ chainErr' = "none"
  /\ chainText' = << >>
  /\ UNCHANGED <<chainInputs, requested, cmdVars>>

PrependNodes(ns) ==
  /\ Len(nodes) + Len(ns) <= MaxNodes
  /\ nodes' = ns \o nodes
  /\ chainOp' = "prependNodes"
  /\ chainArg' = << >>
  /\ chainErr' = "none"
  /\ chainText' = << >>
  /\ UNCHANGED <<chainInputs, requested, cmdVars>>

\* new FFmpegStreamSpecifier(chain, specifier): creating it fails for a pad
\* the output node does not have
NewFFmpegStreamSpecifier(specifier) ==
  IF specifier < Len(OutputPads) THEN "none" ELSE "OutOfRange"

\* streamSpecifier(specifier): a new FFmpegStreamSpecifier on output pad
\* `specifier` (0 when undefined)
StreamSpecifier(specifier) ==
  /\ chainErr' = NewFFmpegStreamSpecifier(specifier)
  /\ requested' = IF NewFFmpegStreamSpecifier(specifier) = "none"
                  THEN requested \cup {specifier} ELSE requested
  /\ chainOp' = "streamSpecifier"
  /\ chainArg' = << >>
  /\ chainText' = << >>
  /\ UNCHANGED <<nodes, chainInputs, cmdVars>>

\* str.startsWith('[') && str.endsWith(']') ? str : `[${str}]`
Bracketed(str) ==
  IF str # << >> /\ Head(str) = "[" /\ str[Len(str)] = "]"
  THEN str ELSE <<"[">> \o str \o <<"]">>

RECURSIVE Join(_, _)
Join(ss, sep) ==
  IF ss = << >> THEN << >>
  ELSE IF Len(ss) = 1 THEN Head(ss)
  ELSE Head(ss) \o <<sep>> \o Join(Tail(ss), sep)

InputsText == Flatten([k \in 1..Len(chainInputs) |-> Bracketed(chainInputs[k].str)])

FiltersText == Join([k \in 1..Len(nodes) |-> NodeToString(nodes[k])], ",")

\* the name toString gives output pad i (0-based)
PadName(i) == PadPrefix(OutputNode) \o "_" \o ToString(i)

OutputsText == Flatten([k \in 1..Len(OutputPads) |-> <<"[", PadName(k - 1), "]">>])

ChainToString == InputsText \o FiltersText \o OutputsText

ToStringCall ==
  /\ chainText' = ChainToString
  /\ chainOp' = "toString"
  /\ chainArg' = << >>
  /\ chainErr' = "none"
  /\ UNCHANGED <<nodes, chainInputs, requested, cmdVars>>

\* the arrays a caller hands to addInputs, and the node lists to append/prepend
InputArrays ==
  {ArrayOf(e) : e \in UNION {[1..n -> Specifiers] : n \in 0..2}}
  \cup {ArrayOf(<<NotSpecifier>>)}
NodeLists(lo, hi) == UNION {[1..n -> NodeTypes] : n \in lo..hi}

ChainNext ==
  \/ \E a \in InputArrays : AddInputs(a)
  \/ \E i \in Specifiers : AddInputs(NotArray(i))
  \/ \E i \in Specifiers \cup {NotSpecifier} : ChainAddInput(i)
  \/ \E ns \in NodeLists(0, 1) : AppendNodes(ns)
  \/ \E ns \in NodeLists(0, 1) : PrependNodes(ns)
  \/ \E x \in PadIndexes : StreamSpecifier(x)
  \/ ToStringCall

\* a FilterChain constructed from any non-empty node list, beside an unused Command
InitChain == CmdInit({<< >>}) /\ ChainInit(NodeLists(1, MaxNodes))

ChainSpec == InitChain /\ [][ChainNext]_vars

\* ------------------------------------------------------------------ claims
\* the positions of toCommand's list that hold the flag `flag`
FlagAt(flag) == {p \in 1..Len(args) : args[p] = flag}

\* p and p + 1 lie after the last input's block and before the first output's
BetweenInputsAndOutputs(p) ==
  /\ p > Len(GlobalArgs \o InputArgs)
  /\ p + 1 <= Len(args) - Len(OutputArgs)

NonEmptyGraphs ==
  {k \in 1..Len(filterGraphs) : GraphToString(filterGraphs[k]) # ""}

\* C1: after any sequence of addInput, addOutput and addFilterGraph calls the
\* input stored at position k of the input list has label k (0-indexed), and
\* a label that addInput assigned is not changed by any later call.
C1_LabelIsPositionForever ==
  [][/\ \A k \in 1..Len(inputs') : inputLabel'[inputs'[k]] = <<k - 1>>
     /\ \A i \in InputObjs : inputLabel[i] # << >> => inputLabel'[i] = inputLabel[i]]_vars

\* C2: when some added FilterGraph is non-empty, toCommand's list holds exactly
\* one -filter_complex, followed by the rendered graph, after every input's
\* block and before every output's block; otherwise it holds none.
C2_FilterComplexArgument ==
  lastOp = "toCommand" =>
    IF NonEmptyGraphs # {}
    THEN \E p \in 1..Len(args) :
           /\ FlagAt("-filter_complex") = {p}
           /\ BetweenInputsAndOutputs(p)
           /\ \E k \in NonEmptyGraphs : args[p + 1] = GraphToString(filterGraphs[k])
    ELSE FlagAt("-filter_complex") = {}

\* C3: toCommand's list holds one -map argument per mapping entry handed to
\* addOutput, each after the inputs' blocks and before the outputs' blocks,
\* and no -map argument when no mapping was ever supplied.
C3_OneMapPerMappingEntry ==
  lastOp = "toCommand" =>
    /\ Cardinality(FlagAt("-map")) = supplied
    /\ \A p \in FlagAt("-map") : BetweenInputsAndOutputs(p)

\* C4: toCommand is a pure read: a toCommand call changes none of the
\* Command's options, inputs, outputs, filter graphs or connections, and a
\* toCommand call that directly follows a toCommand call returns the same list.
C4_ToCommandPureRead ==
  [][lastOp' = "toCommand" =>
       /\ UNCHANGED cmdState
       /\ err' = "none"
       /\ lastOp = "toCommand" => args' = args]_vars

\* C4 witness: toCommand has rendered a Command with an option, two inputs, a
\* filter graph and two outputs
C4_Witness ==
  /\ lastOp = "toCommand"
  /\ options # << >>
  /\ Len(inputs) = 2
  /\ Len(outputs) = 2
  /\ filterGraphs # << >>
  /\ args = ToCommandArgs
  /\ Len(args) >= 9

IsFilterSource(o) == o.class \in {"FilterNode", "FilterChain", "FilterGraph"}

\* C6: the first mapping of a filter output pad succeeds (and marks the pad);
\* mapping a pad that is already mapped fails with a mapping error.
C6_PadMappedOnce ==
  [][(lastOp' = "getMappingParameterValue" /\ IsFilterSource(lastArg'.fromObject)) =>
       LET pad == <<lastArg'.fromObject, lastArg'.fromStreamIndex>> IN
       IF pad \in padMapped
       THEN err' = "AlreadyMapped" /\ padMapped' = padMapped
       ELSE err' = "none" /\ pad \in padMapped']_vars

\* C10: getMappingParameterValue(fromObject, fromIndex) returns (label of
\* fromObject, fromIndex) for an Input of the input list, fails for an Input
\* that is not in the list, and fails with the unknown-mapping-source error for
\* an object that is neither an Input nor a filter chain/graph; a failing call
\* leaves the Command's state unchanged.
C10_MappingParameterValue ==
  [][lastOp' = "getMappingParameterValue" =>
       LET f == lastArg'.fromObject
           x == lastArg'.fromStreamIndex
           inList == \E k \in 1..Len(inputs) : inputs[k] = f
       IN
       /\ (f.class = "FFmpegInput" /\ inList) =>
            err' = "none" /\ mapValue' = <<inputLabel[f][1], x>>
       /\ (f.class = "FFmpegInput" /\ ~inList) =>
            err' # "none" /\ UNCHANGED cmdState
       /\ (f.class # "FFmpegInput" /\ ~IsFilterSource(f)) =>
            err' = "UnknownInputType" /\ UNCHANGED cmdState]_vars

\* an addInput/addInputs call with an array of stream specifiers
SpecifiersAdded ==
  /\ chainOp' \in {"addInput", "addInputs"}
  /\ chainArg'.isArray
  /\ \A k \in 1..Len(chainArg'.elems) : chainArg'.elems[k] \in Specifiers

Unbounded == \E p \in 1..Len(InputPads) : InputPads[p] = "N"

\* C5: on a chain whose first node has finite input arity n, an
\* addInput/addInputs call that would bring the bound inputs above n fails and
\* leaves the bound-input list unchanged; on a chain whose first node has
\* unbounded input arity, addInput/addInputs with stream specifiers never fails.
C5_InputArity ==
  [][SpecifiersAdded =>
       LET total == Len(chainInputs) + Len(chainArg'.elems) IN
       /\ (~Unbounded /\ total > Len(InputPads)) =>
            chainErr' # "none" /\ chainInputs' = chainInputs
       /\ Unbounded => chainErr' = "none"]_vars

\* C7: toString's text holds the bracketed name of an output pad if and only if
\* a stream specifier was requested for that pad, and a chain with no bound
\* input and no requested output specifier renders to its filter text alone.
C7_PadNamesOnlyWhenRequested ==
  chainOp = "toString" =>
    /\ \A i \in 0..(Len(OutputPads) - 1) :
         (\E p \in 1..Len(chainText) : chainText[p] = PadName(i)) <=> i \in requested
    /\ (chainInputs = << >> /\ requested = {}) => chainText = FiltersText

\* C8: an addInput/addInputs call that leaves the bound inputs below the first
\* node's input arity does not fail: it returns normally and appends the given
\* specifiers to the bound-input list in order.
C8_UnderFilledIsWarning ==
  [][(SpecifiersAdded /\ Len(chainInputs) + Len(chainArg'.elems) < Len(InputPads)) =>
       chainErr' = "none" /\ chainInputs' = chainInputs \o chainArg'.elems]_vars

\* C9: in every state reachable by construction, appendNodes, prependNodes,
\* addInput and addInputs, the number of bound inputs is at most the input
\* arity of the chain's current first node, unless that arity is unbounded.
C9_BoundInputsWithinArity ==
  Unbounded \/ Len(chainInputs) <= Len(InputPads)

\* C11: there is no partial success in addOutput: a call that fails with an
\* error leaves the Command's output list as it was before the call, and a
\* call that succeeds appends the output exactly once at the end of the list.
C11_AddOutputAllOrNothing ==
  [][lastOp' = "addOutput" =>
       IF err' # "none"
       THEN outputs' = outputs
       ELSE \E o \in OutputObjs : outputs' = Append(outputs, o)]_vars
====
